---- MODULE Spec2Model ----
\* Model of the parallel digital shredder (src/main.cpp, src/shredder.h,
\* src/utils.cpp): the pass loop of main, the OpenMP workers that share one
\* FILE*, the chunk arithmetic, the pattern rotation, the progress counter and
\* secure_delete_file / trim_file.
EXTENDS Integers, Sequences, FiniteSets, TLC

\* ---------------------------------------------------------------- bounds
\* Largest file length, thread count and pass count of a modelled run.
MaxLen == 2
MaxThreads == 2
MaxPasses == 2
\* BUFFER_SIZE of main.cpp:140 is 1 MiB; the model keeps the loop's shape and
\* scales the buffer so that a chunk needs more than one write.
BUFFER_SIZE == 1
\* Inputs of SpecPlan, the runs followed up to the workers' chunk bounds.
MaxPlanLen == 12
MaxPlanThreads == 4
\* Largest pass count of SpecPasses, the runs over a one-byte file.
MaxLongPasses == 4

\* ------------------------------------------------------- program constants
\* utils.cpp:353  if (file_size < 4096) return true;
TRIM_MIN_SIZE == 4096

ZERO == 0
ONES == 255
\* A byte of the file before the run (any value; the run never reads it).
OrigBytes == {90}
\* uniform_int_distribution<>(0, 255): a random byte may be any value, the
\* pattern bytes included.
RandBytes == {0, 165}
NoPattern == -1

Tids(n) == 0 .. (n - 1)
Min(a, b) == IF a < b THEN a ELSE b

\* ------------------------------------------------------ chunk arithmetic
\* main.cpp:102  long chunk_size = file_size / num_threads;
ChunkSize(L, N) == L \div N
\* main.cpp:103  long remainder = file_size % num_threads;
Remainder(L, N) == L % N
\* main.cpp:132  long start_offset = tid * chunk_size;
StartOffset(tid, cs) == tid * cs
\* (mutant) the remainder goes to the first thread instead of the last
RemainderToFirst(tid, N, cs, rem) == IF tid = 0 THEN cs + rem ELSE cs
\* main.cpp:133-137  the last thread takes the remainder
CurrentChunkSize(tid, N, cs, rem) == IF tid = N - 1 THEN cs + rem ELSE cs

\* ------------------------------------------------------- pattern rotation
\* (mutant) the rotation indexed by the 1-based pass itself
PatternOfUnshifted(pass) ==
    IF pass % 3 = 0 THEN <<ZERO, FALSE>>
    ELSE IF pass % 3 = 1 THEN <<ONES, FALSE>>
    ELSE <<NoPattern, TRUE>>
\* main.cpp:148-154: <<pattern, use_random>> of a 1-based pass.  pattern is
\* left unset (NoPattern) on the random branch and never read there.
PatternOf(pass) ==
    IF (pass - 1) % 3 = 0 THEN <<ZERO, FALSE>>
    ELSE IF (pass - 1) % 3 = 1 THEN <<ONES, FALSE>>
    ELSE <<NoPattern, TRUE>>
\* main.cpp:124-127: the name printed for the pass.
PatternName(pass) ==
    IF (pass - 1) % 3 = 0 THEN "0x00"
    ELSE IF (pass - 1) % 3 = 1 THEN "0xFF"
    ELSE "rand"
\* shredder.h:37-47: shred_chunk counts passes from 0.
ShredChunkPattern(pass0) ==
    IF pass0 % 3 = 0 THEN <<ZERO, FALSE>>
    ELSE IF pass0 % 3 = 1 THEN <<ONES, FALSE>>
    ELSE <<NoPattern, TRUE>>

\* ------------------------------------------------------------ the stream
\* fwrite of the bytes `data` at stream position pos (0-based) of content f:
\* bytes past the end extend the file.
WriteAt(f, pos, data) ==
    LET n == Len(data)
        newlen == IF pos + n > Len(f) THEN pos + n ELSE Len(f)
    IN [i \in 1 .. newlen |->
          IF i > pos /\ i <= pos + n THEN data[i - pos]
          ELSE IF i <= Len(f) THEN f[i] ELSE 0]
\* The write counts of the current pass, kept next to the content.
CountAt(c, pos, n) ==
    LET newlen == IF pos + n > Len(c) THEN pos + n ELSE Len(c)
    IN [i \in 1 .. newlen |->
          (IF i <= Len(c) THEN c[i] ELSE 0)
          + (IF i > pos /\ i <= pos + n THEN 1 ELSE 0)]

\* --------------------------------------------------------- secure delete
\* The environment's answers to the system calls of the deletion.
DeleteEnvs ==
    [open : {"ok", "ENOENT", "EACCES"}, fstat_ok : BOOLEAN, is_reg : BOOLEAN,
     fallocate : {"ok", "EOPNOTSUPP", "EIO"}, remove_ok : BOOLEAN]

\* (mutant) the size gate lets a file of exactly 4096 bytes skip the discard
TrimFileGateOff(size, env) ==
    IF size <= TRIM_MIN_SIZE THEN [calls |-> << >>, ret |-> TRUE]
    ELSE IF env.open # "ok"
         THEN [calls |-> << <<"open", env.open>> >>,
               ret |-> (env.open = "ENOENT")]
    ELSE [calls |-> << <<"open", "ok">>, <<"fstat", "ok">>,
                       <<"fallocate", env.fallocate>>, <<"close", "ok">> >>,
          ret |-> TRUE]

\* utils.cpp:351-397 trim_file (Linux, FALLOC_FL_PUNCH_HOLE defined): the
\* system calls it makes, each with the environment's answer, and its result.
TrimFile(size, env) ==
    IF size < TRIM_MIN_SIZE THEN [calls |-> << >>, ret |-> TRUE]
    ELSE IF env.open # "ok"
         THEN [calls |-> << <<"open", env.open>> >>,
               ret |-> (env.open = "ENOENT")]
    ELSE IF ~env.fstat_ok
         THEN [calls |-> << <<"open", "ok">>, <<"fstat", "fail">>,
                            <<"close", "ok">> >>,
               ret |-> FALSE]
    ELSE IF ~env.is_reg
         THEN [calls |-> << <<"open", "ok">>, <<"fstat", "not regular">>,
                            <<"close", "ok">> >>,
               ret |-> FALSE]
    ELSE [calls |-> << <<"open", "ok">>, <<"fstat", "ok">>,
                       <<"fallocate", env.fallocate>>, <<"close", "ok">> >>,
          ret |-> TRUE]

\* (mutant) a failed discard step ends the deletion before remove()
SecureDeleteStopsOnTrimFailure(ssd, size, env) ==
    LET trim == IF ssd THEN TrimFile(size, env)
                ELSE [calls |-> << >>, ret |-> TRUE]
    IN IF trim.ret
       THEN [calls |-> trim.calls \o
                       << <<"remove", IF env.remove_ok THEN "ok" ELSE "fail">> >>,
             ret |-> env.remove_ok]
       ELSE [calls |-> trim.calls, ret |-> FALSE]

\* utils.cpp:401-413 secure_delete_file: the discard step only for an SSD,
\* its result dropped; then remove(), whose result is the function's.
SecureDeleteFile(ssd, size, env) ==
    LET trim == IF ssd THEN TrimFile(size, env).calls ELSE << >>
    IN [calls |-> trim \o << <<"remove", IF env.remove_ok THEN "ok" ELSE "fail">> >>,
        ret |-> env.remove_ok]

\* --------------------------------------------------------- storage probe
\* A probe that takes an unreadable rotational attribute for an SSD.
IsSsdUnlessRotational(env) ==
    IF ~env.stat_ok THEN FALSE
    ELSE IF ~env.mounts_ok THEN FALSE
    ELSE IF ~env.mount_found THEN FALSE
    ELSE IF ~env.rot_open THEN TRUE
    ELSE IF env.rot_read THEN env.rot_value = "0"
    ELSE TRUE

\* utils.cpp:276-349 is_ssd (Linux): every failure returns false.
IsSsd(env) ==
    IF ~env.stat_ok THEN FALSE
    ELSE IF ~env.mounts_ok THEN FALSE
    ELSE IF ~env.mount_found THEN FALSE
    ELSE IF ~env.rot_open THEN FALSE
    ELSE IF env.rot_read THEN env.rot_value = "0"
    ELSE FALSE

ProbeEnvs ==
    [stat_ok : BOOLEAN, mounts_ok : BOOLEAN, mount_found : BOOLEAN,
     rot_open : BOOLEAN, rot_read : BOOLEAN, rot_value : {"0", "1"}]
\* The environments in which every step of the probe succeeds.
WorkingProbeEnvs ==
    {e \in ProbeEnvs : e.stat_ok /\ e.mounts_ok /\ e.mount_found
                        /\ e.rot_open /\ e.rot_read}

\* ------------------------------------------------------------- the state
VARIABLES
    passes,                 \* argv[2]
    num_threads,            \* argv[3]
    mpc,                    \* position of main
    exit_code,              \* main's return value, -1 while running
    out,                    \* what main printed, in order
    file,                   \* content of the target file (through the stream)
    exists,                 \* the path's directory entry exists
    handle,                 \* the shared FILE*: "none", "open", "closed"
    fpos,                   \* the stream position of the shared FILE*
    dirty,                  \* written since the last fflush
    is_ssd_device,          \* main.cpp:72
    file_size,              \* main.cpp:94
    chunk_size,             \* main.cpp:102
    remainder,              \* main.cpp:103
    pass,                   \* main.cpp:120
    pattern_name,           \* main.cpp:124
    total_bytes_processed,  \* shredder.h:17
    total_bytes_to_process, \* shredder.h:18
    current_pass,           \* shredder.h:19
    total_passes,           \* shredder.h:20
    wpc,                    \* position of each worker (loop iteration tid)
    wpass,                  \* the value of pass the worker was dispatched with
    start_offset,           \* main.cpp:132
    current_chunk_size,     \* main.cpp:133
    buffer,                 \* main.cpp:141: "none", "alloc", "freed"
    bufdata,                \* the bytes the buffer holds
    pattern,                \* main.cpp:145
    use_random,             \* main.cpp:146
    bytes_remaining,        \* main.cpp:156
    current_offset,         \* main.cpp:157
    bytes_to_write,         \* main.cpp:160
    wfail,                  \* the worker left its loop by a break
    frees,                  \* delete[] calls on the worker's buffer
    wcnt,                   \* writes of the current pass that hit each offset
    failures,               \* passes in which a seek or a write failed
    dispatched,             \* passes whose workers were dispatched
    sdcalls,                \* system calls made by secure_delete_file
    deletion_success,       \* main.cpp:222
    penv,                   \* what stat, /proc/mounts and /sys/block answer
    probes                  \* calls of is_ssd so far

mainvars == <<passes, num_threads, mpc, exit_code, out, is_ssd_device,
              file_size, chunk_size, remainder, pass, pattern_name,
              total_bytes_to_process, current_pass, total_passes>>
filevars == <<file, exists, handle, fpos, dirty>>
workvars == <<wpc, wpass, start_offset, current_chunk_size, buffer, bufdata,
              pattern, use_random, bytes_remaining, current_offset,
              bytes_to_write, wfail, frees>>
histvars == <<wcnt, failures, dispatched>>
delvars == <<sdcalls, deletion_success>>
envvars == <<penv, probes>>
vars == <<mainvars, filevars, workvars, histvars, delvars, envvars,
          total_bytes_processed>>

\* The per-run state before main has done anything, for n loop iterations.
Fresh(n) ==
    /\ exit_code = -1
    /\ out = << >>
    /\ exists = TRUE
    /\ handle = "none"
    /\ fpos = 0
    /\ dirty = FALSE
    /\ is_ssd_device = FALSE
    /\ file_size = 0
    /\ chunk_size = 0
    /\ remainder = 0
    /\ pass = 0
    /\ pattern_name = ""
    /\ total_bytes_processed = 0
    /\ total_bytes_to_process = 0
    /\ current_pass = 0
    /\ total_passes = 0
    /\ wpc = [t \in Tids(n) |-> "idle"]
    /\ wpass = [t \in Tids(n) |-> 0]
    /\ start_offset = [t \in Tids(n) |-> 0]
    /\ current_chunk_size = [t \in Tids(n) |-> 0]
    /\ buffer = [t \in Tids(n) |-> "none"]
    /\ bufdata = [t \in Tids(n) |-> << >>]
    /\ pattern = [t \in Tids(n) |-> NoPattern]
    /\ use_random = [t \in Tids(n) |-> FALSE]
    /\ bytes_remaining = [t \in Tids(n) |-> 0]
    /\ current_offset = [t \in Tids(n) |-> 0]
    /\ bytes_to_write = [t \in Tids(n) |-> 0]
    /\ wfail = [t \in Tids(n) |-> FALSE]
    /\ frees = [t \in Tids(n) |-> 0]
    /\ failures = {}
    /\ dispatched = {}
    /\ sdcalls = << >>
    /\ deletion_success = FALSE
    /\ probes = 0

\* main.cpp:31-48: a run is started with a pass count, a thread count and a
\* file of some length (0 is an empty file).
Init ==
    /\ passes \in 0 .. MaxPasses
    /\ num_threads \in 0 .. MaxThreads
    /\ \E L \in 0 .. MaxLen : file \in [1 .. L -> OrigBytes]
    /\ wcnt = [i \in 1 .. Len(file) |-> 0]
    /\ penv \in WorkingProbeEnvs
    /\ mpc = "args"
    /\ Fresh(num_threads)

\* ------------------------------------------------------------------ main
Exit(code, msg) ==
    /\ mpc' = "exit"
    /\ exit_code' = code
    /\ out' = Append(out, <<msg>>)

\* An argument check that lets a pass count of zero through.
ArgsValidZeroPasses == passes >= 0 /\ num_threads >= 1

\* main.cpp:50-58: passes < 1 or num_threads < 1 is rejected.
ArgsValid == passes >= 1 /\ num_threads >= 1

CheckArgs ==
    /\ mpc = "args"
    /\ IF ArgsValid
       THEN mpc' = "validate" /\ UNCHANGED <<exit_code, out>>
       ELSE Exit(1, "error")
    /\ UNCHANGED <<passes, num_threads, is_ssd_device, file_size, chunk_size,
                   remainder, pass, pattern_name, total_bytes_to_process,
                   current_pass, total_passes>>
    /\ UNCHANGED <<filevars, workvars, histvars, delvars, envvars,
                   total_bytes_processed>>

\* main.cpp:62-65 with utils.cpp:42-67 validate_file: the path must be an
\* existing, regular, writable, non-empty file (ok: the first three).
Validate ==
    /\ mpc = "validate"
    /\ \E ok \in BOOLEAN :
         IF ok /\ Len(file) # 0
         THEN mpc' = "probe" /\ UNCHANGED <<exit_code, out>>
         ELSE Exit(1, "error")
    /\ UNCHANGED <<passes, num_threads, is_ssd_device, file_size, chunk_size,
                   remainder, pass, pattern_name, total_bytes_to_process,
                   current_pass, total_passes>>
    /\ UNCHANGED <<filevars, workvars, histvars, delvars, envvars,
                   total_bytes_processed>>

\* main.cpp:71-77: the storage class is probed.
Probe ==
    /\ mpc = "probe"
    /\ is_ssd_device' = IsSsd(penv)
    /\ probes' = probes + 1
    /\ mpc' = "confirm"
    /\ UNCHANGED <<passes, num_threads, exit_code, out, file_size, chunk_size,
                   remainder, pass, pattern_name, total_bytes_to_process,
                   current_pass, total_passes>>
    /\ UNCHANGED <<filevars, workvars, histvars, delvars, penv,
                   total_bytes_processed>>

\* main.cpp:79-85: the first confirmation.
Confirm ==
    /\ mpc = "confirm"
    /\ \E yes \in BOOLEAN :
         IF yes
         THEN mpc' = "open" /\ UNCHANGED <<exit_code, out>>
         ELSE Exit(0, "cancelled")
    /\ UNCHANGED <<passes, num_threads, is_ssd_device, file_size, chunk_size,
                   remainder, pass, pattern_name, total_bytes_to_process,
                   current_pass, total_passes>>
    /\ UNCHANGED <<filevars, workvars, histvars, delvars, envvars,
                   total_bytes_processed>>

\* main.cpp:87-92: the one FILE* all threads will share.
Open ==
    /\ mpc = "open"
    /\ \E ok \in BOOLEAN :
         IF ok
         THEN /\ mpc' = "size"
              /\ handle' = "open"
              /\ fpos' = 0
              /\ UNCHANGED <<exit_code, out>>
         ELSE /\ Exit(1, "error")
              /\ UNCHANGED <<handle, fpos>>
    /\ UNCHANGED <<passes, num_threads, is_ssd_device, file_size, chunk_size,
                   remainder, pass, pattern_name, total_bytes_to_process,
                   current_pass, total_passes>>
    /\ UNCHANGED <<file, exists, dirty, workvars, histvars, delvars, envvars,
                   total_bytes_processed>>

\* main.cpp:94-99 with utils.cpp:27-40 get_file_size: -1 when the seek to the
\* end fails; a size <= 0 closes the file and ends the run.
GetSize ==
    /\ mpc = "size"
    /\ \E seek_ok \in BOOLEAN :
         LET size == IF seek_ok THEN Len(file) ELSE -1
         IN /\ file_size' = size
            /\ IF size <= 0
               THEN Exit(1, "error") /\ handle' = "closed"
               ELSE mpc' = "plan" /\ UNCHANGED <<exit_code, out, handle>>
    /\ fpos' = 0
    /\ UNCHANGED <<passes, num_threads, is_ssd_device, chunk_size,
                   remainder, pass, pattern_name, total_bytes_to_process,
                   current_pass, total_passes>>
    /\ UNCHANGED <<file, exists, dirty, workvars, histvars, delvars, envvars,
                   total_bytes_processed>>

\* main.cpp:101-120: the chunk arithmetic, the progress globals, pass = 1.
Plan ==
    /\ mpc = "plan"
    /\ chunk_size' = ChunkSize(file_size, num_threads)
    /\ remainder' = Remainder(file_size, num_threads)
    /\ total_bytes_to_process' = file_size
    /\ total_passes' = passes
    /\ pass' = 1
    /\ mpc' = "loop"
    /\ UNCHANGED <<passes, num_threads, exit_code, out, is_ssd_device,
                   file_size, pattern_name, current_pass>>
    /\ UNCHANGED <<filevars, workvars, histvars, delvars, envvars,
                   total_bytes_processed>>

\* main.cpp:120-131: the head of the pass loop.  While pass <= passes the
\* progress counter is reset and the parallel region forks one iteration per
\* tid; otherwise the loop is left.
StartPass ==
    /\ mpc = "loop"
    /\ pass <= passes
    /\ current_pass' = pass
    /\ total_bytes_processed' = 0
    /\ pattern_name' = PatternName(pass)
    /\ wpc' = [t \in Tids(num_threads) |-> "begin"]
    /\ wpass' = [t \in Tids(num_threads) |-> pass]
    /\ wcnt' = [i \in 1 .. Len(file) |-> 0]
    /\ dispatched' = dispatched \cup {pass}
    /\ mpc' = "join"
    /\ UNCHANGED <<passes, num_threads, exit_code, out, is_ssd_device,
                   file_size, chunk_size, remainder, pass,
                   total_bytes_to_process, total_passes>>
    /\ UNCHANGED <<filevars, start_offset, current_chunk_size, buffer,
                   bufdata, pattern, use_random, bytes_remaining,
                   current_offset, bytes_to_write, wfail, frees,
                   failures, delvars, envvars>>

\* (mutant) the region is left as soon as one iteration is done (nowait)
BarrierAny == \E t \in Tids(num_threads) : wpc[t] = "done"
\* The implicit barrier that ends the parallel region (main.cpp:191).
Barrier == \A t \in Tids(num_threads) : wpc[t] = "done"

\* main.cpp:191-197: after the barrier the pass is reported done, pass++.
EndPass ==
    /\ mpc = "join"
    /\ Barrier
    /\ out' = Append(out, <<"pass done", pass, pattern_name>>)
    /\ pass' = pass + 1
    /\ mpc' = "loop"
    /\ UNCHANGED <<passes, num_threads, exit_code, is_ssd_device, file_size,
                   chunk_size, remainder, pattern_name,
                   total_bytes_to_process, current_pass, total_passes>>
    /\ UNCHANGED <<filevars, workvars, histvars, delvars, envvars,
                   total_bytes_processed>>

\* main.cpp:199-210: the loop is left; flush, close, "Completed in ...".
Finish ==
    /\ mpc = "loop"
    /\ pass > passes
    /\ dirty' = FALSE
    /\ handle' = "closed"
    /\ out' = Append(out, <<"completed">>)
    /\ mpc' = "prompt"
    /\ UNCHANGED <<passes, num_threads, exit_code, is_ssd_device, file_size,
                   chunk_size, remainder, pass, pattern_name,
                   total_bytes_to_process, current_pass, total_passes>>
    /\ UNCHANGED <<file, exists, fpos, workvars, histvars, delvars, envvars,
                   total_bytes_processed>>

\* A deletion prompt whose "no" is reported and then not obeyed.
PromptNotObeyed ==
    /\ mpc = "prompt"
    /\ \E yes \in BOOLEAN :
         out' = IF yes THEN out ELSE Append(out, <<"kept">>)
    /\ mpc' = "delete"
    /\ UNCHANGED <<passes, num_threads, exit_code, is_ssd_device, file_size,
                   chunk_size, remainder, pass, pattern_name,
                   total_bytes_to_process, current_pass, total_passes>>
    /\ UNCHANGED <<filevars, workvars, histvars, delvars, envvars,
                   total_bytes_processed>>

\* main.cpp:212-217: the deletion confirmation.
Prompt ==
    /\ mpc = "prompt"
    /\ \E yes \in BOOLEAN :
         IF yes
         THEN mpc' = "delete" /\ UNCHANGED <<exit_code, out>>
         ELSE Exit(0, "kept")
    /\ UNCHANGED <<passes, num_threads, is_ssd_device, file_size, chunk_size,
                   remainder, pass, pattern_name, total_bytes_to_process,
                   current_pass, total_passes>>
    /\ UNCHANGED <<filevars, workvars, histvars, delvars, envvars,
                   total_bytes_processed>>

\* main.cpp:219-235: secure_delete_file is called and its result reported.
Delete ==
    /\ mpc = "delete"
    /\ \E env \in DeleteEnvs :
         LET r == SecureDeleteFile(is_ssd_device, file_size, env)
         IN /\ sdcalls' = sdcalls \o r.calls
            /\ deletion_success' = r.ret
            /\ exists' = IF r.ret THEN FALSE ELSE exists
            /\ Exit(0, IF r.ret THEN "deleted" ELSE "deletion failed")
    /\ UNCHANGED <<passes, num_threads, is_ssd_device, file_size, chunk_size,
                   remainder, pass, pattern_name, total_bytes_to_process,
                   current_pass, total_passes>>
    /\ UNCHANGED <<file, handle, fpos, dirty, workvars, histvars, envvars,
                   total_bytes_processed>>

\* --------------------------------------------------------------- workers
\* One iteration tid of the omp parallel for (main.cpp:130-191).  A worker
\* runs only inside the parallel region, while main waits at the barrier.
Running(t) == mpc = "join" /\ t \in Tids(num_threads)

\* main.cpp:131-157: chunk bounds, buffer, pattern, loop variables.
Begin(t) ==
    /\ Running(t)
    /\ wpc[t] = "begin"
    /\ start_offset' = [start_offset EXCEPT ![t] = StartOffset(t, chunk_size)]
    /\ current_chunk_size' = [current_chunk_size EXCEPT ![t] =
           CurrentChunkSize(t, num_threads, chunk_size, remainder)]
    /\ buffer' = [buffer EXCEPT ![t] = "alloc"]
    /\ frees' = [frees EXCEPT ![t] = 0]
    /\ bufdata' = [bufdata EXCEPT ![t] = << >>]
    /\ pattern' = [pattern EXCEPT ![t] = PatternOf(pass)[1]]
    /\ use_random' = [use_random EXCEPT ![t] = PatternOf(pass)[2]]
    /\ bytes_remaining' = [bytes_remaining EXCEPT ![t] =
           CurrentChunkSize(t, num_threads, chunk_size, remainder)]
    /\ current_offset' = [current_offset EXCEPT ![t] =
           StartOffset(t, chunk_size)]
    /\ bytes_to_write' = [bytes_to_write EXCEPT ![t] = 0]
    /\ wfail' = [wfail EXCEPT ![t] = FALSE]
    /\ wpc' = [wpc EXCEPT ![t] = "loop"]
    /\ UNCHANGED <<mainvars, filevars, histvars, delvars, envvars, wpass,
                   total_bytes_processed>>

\* main.cpp:163-167: the bytes the buffer holds after the fill.
Fills(t, n) ==
    IF use_random[t] THEN [1 .. n -> RandBytes]
    ELSE {[i \in 1 .. n |-> pattern[t]]}

\* A failure after which the worker goes round the loop again.
BreakAndRetry(t) ==
    /\ buffer' = [buffer EXCEPT ![t] = "freed"]
    /\ bufdata' = [bufdata EXCEPT ![t] = << >>]
    /\ frees' = [frees EXCEPT ![t] = @ + 1]
    /\ wfail' = [wfail EXCEPT ![t] = TRUE]
    /\ failures' = failures \cup {pass}
    /\ wpc' = [wpc EXCEPT ![t] = "loop"]

\* main.cpp:170-171 and 177-178: delete[] buffer; break;
Break(t) ==
    /\ buffer' = [buffer EXCEPT ![t] = "freed"]
    /\ bufdata' = [bufdata EXCEPT ![t] = << >>]
    /\ frees' = [frees EXCEPT ![t] = @ + 1]
    /\ wfail' = [wfail EXCEPT ![t] = TRUE]
    /\ failures' = failures \cup {pass}
    /\ wpc' = [wpc EXCEPT ![t] = "flush"]

\* (mutant) a loop test that lets a worker with nothing left go round
MoreToWriteOrNone(t) == bytes_remaining[t] >= 0
\* main.cpp:159  while (bytes_remaining > 0)
MoreToWrite(t) == bytes_remaining[t] > 0

\* main.cpp:159-172: the loop test; while bytes remain, bytes_to_write, the
\* fill of the private buffer and the fseek on the shared stream, which may
\* fail.  (The test and the fill touch only the thread's own data.)
Seek(t) ==
    /\ Running(t)
    /\ wpc[t] = "loop"
    /\ IF MoreToWrite(t)
       THEN LET n == Min(bytes_remaining[t], BUFFER_SIZE)
            IN /\ bytes_to_write' = [bytes_to_write EXCEPT ![t] = n]
               /\ \E ok \in BOOLEAN :
                    IF ok
                    THEN /\ \E d \in Fills(t, n) :
                              bufdata' = [bufdata EXCEPT ![t] = d]
                         /\ fpos' = current_offset[t]
                         /\ wpc' = [wpc EXCEPT ![t] = "write"]
                         /\ UNCHANGED <<buffer, frees, wfail, failures>>
                    ELSE /\ Break(t)
                         /\ UNCHANGED fpos
       ELSE /\ wpc' = [wpc EXCEPT ![t] = "flush"]
            /\ UNCHANGED <<bytes_to_write, bufdata, fpos, buffer, frees,
                           wfail, failures>>
    /\ UNCHANGED <<mainvars, file, exists, handle, dirty, delvars, envvars, wpass,
                   start_offset, current_chunk_size, pattern, use_random,
                   bytes_remaining, current_offset, wcnt, dispatched,
                   total_bytes_processed>>

\* main.cpp:174-179: fwrite at the stream's current position, wherever the
\* last fseek of any thread left it; written < bytes_to_write is a failure.
Write(t) ==
    /\ Running(t)
    /\ wpc[t] = "write"
    /\ \E written \in 0 .. bytes_to_write[t] :
         /\ file' = WriteAt(file, fpos, SubSeq(bufdata[t], 1, written))
         /\ wcnt' = CountAt(wcnt, fpos, written)
         /\ fpos' = fpos + written
         /\ dirty' = (dirty \/ written > 0)
         /\ IF written # bytes_to_write[t]
            THEN Break(t)
            ELSE /\ wpc' = [wpc EXCEPT ![t] = "add"]
                 /\ UNCHANGED <<buffer, bufdata, frees, wfail, failures>>
    /\ UNCHANGED <<mainvars, exists, handle, delvars, envvars, wpass, start_offset,
                   current_chunk_size, pattern, use_random, bytes_remaining,
                   current_offset, bytes_to_write, dispatched,
                   total_bytes_processed>>

\* (mutant) the counter is stored, not added to
StoreNotAdd(n) == total_bytes_processed' = n
\* (mutant) an unsynchronised read-modify-write: the addition is made to a
\* value of the counter read earlier
RacyAdd(n) ==
    \E stale \in 0 .. total_bytes_processed :
       total_bytes_processed' = stale + n
\* main.cpp:185-186: #pragma omp atomic  total_bytes_processed += n
AtomicAdd(n) == total_bytes_processed' = total_bytes_processed + n

\* main.cpp:181-186: advance in the chunk and add to the progress counter.
Add(t) ==
    /\ Running(t)
    /\ wpc[t] = "add"
    /\ current_offset' = [current_offset EXCEPT ![t] = @ + bytes_to_write[t]]
    /\ bytes_remaining' = [bytes_remaining EXCEPT ![t] = @ - bytes_to_write[t]]
    /\ AtomicAdd(bytes_to_write[t])
    /\ wpc' = [wpc EXCEPT ![t] = "loop"]
    /\ UNCHANGED <<mainvars, filevars, histvars, delvars, envvars, wpass,
                   start_offset, current_chunk_size, buffer, bufdata, pattern,
                   use_random, bytes_to_write, wfail, frees>>

\* A worker that leaves the stream unflushed after its loop.
FlushNothing(t) ==
    /\ Running(t)
    /\ wpc[t] = "flush"
    /\ wpc' = [wpc EXCEPT ![t] = "free"]
    /\ UNCHANGED <<mainvars, filevars, histvars, delvars, envvars,
                   wpass, start_offset, current_chunk_size, buffer, bufdata,
                   pattern, use_random, bytes_remaining, current_offset,
                   bytes_to_write, wfail, frees, total_bytes_processed>>

\* main.cpp:189: fflush(file) by the worker, before the barrier.
Flush(t) ==
    /\ Running(t)
    /\ wpc[t] = "flush"
    /\ dirty' = FALSE
    /\ wpc' = [wpc EXCEPT ![t] = "free"]
    /\ UNCHANGED <<mainvars, file, exists, handle, fpos, histvars, delvars, envvars,
                   wpass, start_offset, current_chunk_size, buffer, bufdata,
                   pattern, use_random, bytes_remaining, current_offset,
                   bytes_to_write, wfail, frees, total_bytes_processed>>

\* main.cpp:190-191: delete[] buffer, and the iteration ends: its locals go
\* out of scope.  After a break the buffer was deleted already (170, 177):
\* the second delete[] is undefined behaviour, which the build may survive
\* or which may abort the process.
Free(t) ==
    /\ Running(t)
    /\ wpc[t] = "free"
    /\ frees' = [frees EXCEPT ![t] = @ + 1]
    /\ buffer' = [buffer EXCEPT ![t] = "freed"]
    /\ bufdata' = [bufdata EXCEPT ![t] = << >>]
    /\ \/ /\ wpc' = [wpc EXCEPT ![t] = "done"]
          /\ pattern' = [pattern EXCEPT ![t] = NoPattern]
          /\ use_random' = [use_random EXCEPT ![t] = FALSE]
          /\ bytes_remaining' = [bytes_remaining EXCEPT ![t] = 0]
          /\ current_offset' = [current_offset EXCEPT ![t] = 0]
          /\ bytes_to_write' = [bytes_to_write EXCEPT ![t] = 0]
          /\ UNCHANGED <<mpc, exit_code>>
       \/ /\ buffer[t] = "freed"
          /\ mpc' = "crashed"
          /\ exit_code' = 134
          /\ UNCHANGED <<wpc, pattern, use_random, bytes_remaining,
                         current_offset, bytes_to_write>>
    /\ UNCHANGED <<passes, num_threads, out, is_ssd_device, file_size,
                   chunk_size, remainder, pass, pattern_name,
                   total_bytes_to_process, current_pass, total_passes>>
    /\ UNCHANGED <<filevars, histvars, delvars, envvars, wpass, start_offset,
                   current_chunk_size, wfail, total_bytes_processed>>

Worker(t) ==
    \/ Begin(t) \/ Seek(t) \/ Write(t) \/ Add(t)
    \/ Flush(t) \/ Free(t)

Next ==
    \/ CheckArgs \/ Validate \/ Probe \/ Confirm \/ Open \/ GetSize \/ Plan
    \/ StartPass \/ EndPass \/ Finish \/ Prompt \/ Delete
    \/ \E t \in Tids(MaxThreads) : Worker(t)

Spec == Init /\ [][Next]_vars

\* ------------------------------------------------------------- fair runs
\* The steps of the main thread: none of them blocks for ever (every call,
\* the reads of the user's answers included, returns).
MainStep ==
    \/ CheckArgs \/ Validate \/ Probe \/ Confirm \/ Open \/ GetSize \/ Plan
    \/ StartPass \/ EndPass \/ Finish \/ Prompt \/ Delete

\* The same runs with every call returning and the OpenMP threads scheduled
\* fairly: a thread that can take a step eventually takes one.
SpecFair ==
    /\ Init
    /\ [][Next]_vars
    /\ WF_vars(MainStep)
    /\ \A t \in Tids(MaxThreads) : WF_vars(Worker(t))

\* ------------------------------------------- runs over a one-byte file
\* The same program started on a file of one byte with up to MaxLongPasses
\* passes: long pass sequences, where the pattern rotation wraps around.
InitPasses ==
    /\ passes \in 1 .. MaxLongPasses
    /\ num_threads \in 1 .. MaxThreads
    /\ file \in [1 .. 1 -> OrigBytes]
    /\ wcnt = [i \in 1 .. Len(file) |-> 0]
    /\ penv \in WorkingProbeEnvs
    /\ mpc = "args"
    /\ Fresh(num_threads)

SpecPasses == InitPasses /\ [][Next]_vars

\* ------------------------------------------------ runs with a failing probe
\* The same program, one pass by one thread over a one-byte file, in every
\* environment of the storage probe, the failing ones included.
InitProbe ==
    /\ passes = 1
    /\ num_threads = 1
    /\ file \in [1 .. 1 -> OrigBytes]
    /\ wcnt = [i \in 1 .. Len(file) |-> 0]
    /\ penv \in ProbeEnvs
    /\ mpc = "args"
    /\ Fresh(num_threads)


\* ------------------------------------- runs up to the workers' chunk bounds
\* The program at main.cpp:101, the file opened and measured, for lengths up
\* to MaxPlanLen and up to MaxPlanThreads threads; followed until every
\* worker has computed its chunk (main.cpp:131-157).
InitPlan ==
    /\ passes = 1
    /\ num_threads \in 1 .. MaxPlanThreads
    /\ \E L \in 1 .. MaxPlanLen :
         /\ file \in [1 .. L -> OrigBytes]
         /\ file_size = L
    /\ wcnt = [i \in 1 .. Len(file) |-> 0]
    /\ mpc = "plan"
    /\ handle = "open"
    /\ penv \in WorkingProbeEnvs
    /\ is_ssd_device = IsSsd(penv)
    /\ probes = 1
    /\ exit_code = -1
    /\ out = << >>
    /\ exists = TRUE
    /\ fpos = 0
    /\ dirty = FALSE
    /\ chunk_size = 0
    /\ remainder = 0
    /\ pass = 0
    /\ pattern_name = ""
    /\ total_bytes_processed = 0
    /\ total_bytes_to_process = 0
    /\ current_pass = 0
    /\ total_passes = 0
    /\ wpc = [t \in Tids(num_threads) |-> "idle"]
    /\ wpass = [t \in Tids(num_threads) |-> 0]
    /\ start_offset = [t \in Tids(num_threads) |-> 0]
    /\ current_chunk_size = [t \in Tids(num_threads) |-> 0]
    /\ buffer = [t \in Tids(num_threads) |-> "none"]
    /\ bufdata = [t \in Tids(num_threads) |-> << >>]
    /\ pattern = [t \in Tids(num_threads) |-> NoPattern]
    /\ use_random = [t \in Tids(num_threads) |-> FALSE]
    /\ bytes_remaining = [t \in Tids(num_threads) |-> 0]
    /\ current_offset = [t \in Tids(num_threads) |-> 0]
    /\ bytes_to_write = [t \in Tids(num_threads) |-> 0]
    /\ wfail = [t \in Tids(num_threads) |-> FALSE]
    /\ frees = [t \in Tids(num_threads) |-> 0]
    /\ failures = {}
    /\ dispatched = {}
    /\ sdcalls = << >>
    /\ deletion_success = FALSE

NextPlan == Plan \/ StartPass \/ \E t \in Tids(MaxPlanThreads) : Begin(t)

SpecPlan == InitPlan /\ [][NextPlan]_vars

\* ------------------------------------------------ runs from the deletion
\* File sizes on both sides of the discard gate of trim_file.
DeleteSizes == {1, 2048, 4095, 4096, 4097, 8192, 10000}

\* The program at main.cpp:212, after one pass (0x00) by one thread over a
\* file of a size in DeleteSizes went through without an error.
InitDelete ==
    /\ passes = 1
    /\ num_threads = 1
    /\ file_size \in DeleteSizes
    /\ penv \in ProbeEnvs
    /\ is_ssd_device = IsSsd(penv)
    /\ probes = 1
    /\ file = [i \in 1 .. file_size |-> ZERO]
    /\ wcnt = [i \in 1 .. file_size |-> 1]
    /\ mpc = "prompt"
    /\ exit_code = -1
    /\ out = << <<"pass done", 1, "0x00">>, <<"completed">> >>
    /\ exists = TRUE
    /\ handle = "closed"
    /\ fpos = file_size
    /\ dirty = FALSE
    /\ chunk_size = file_size
    /\ remainder = 0
    /\ pass = 2
    /\ pattern_name = "0x00"
    /\ total_bytes_processed = file_size
    /\ total_bytes_to_process = file_size
    /\ current_pass = 1
    /\ total_passes = 1
    /\ wpc = [t \in Tids(1) |-> "done"]
    /\ wpass = [t \in Tids(1) |-> 1]
    /\ start_offset = [t \in Tids(1) |-> 0]
    /\ current_chunk_size = [t \in Tids(1) |-> file_size]
    /\ buffer = [t \in Tids(1) |-> "freed"]
    /\ bufdata = [t \in Tids(1) |-> << >>]
    /\ pattern = [t \in Tids(1) |-> NoPattern]
    /\ use_random = [t \in Tids(1) |-> FALSE]
    /\ bytes_remaining = [t \in Tids(1) |-> 0]
    /\ current_offset = [t \in Tids(1) |-> 0]
    /\ bytes_to_write = [t \in Tids(1) |-> 0]
    /\ wfail = [t \in Tids(1) |-> FALSE]
    /\ frees = [t \in Tids(1) |-> 1]
    /\ failures = {}
    /\ dispatched = {1}
    /\ sdcalls = << >>
    /\ deletion_success = FALSE

NextDelete == Prompt \/ Delete

SpecDelete == InitDelete /\ [][NextDelete]_vars

\* These runs, and the deletion stage of a run over a file of real size
\* (InitDelete), where the discard step is within reach.
SpecProbe == (InitProbe \/ InitDelete) /\ [][Next]_vars

\* ================================================================ claims
\* Every worker of the current pass has reached the barrier.
PassComplete == mpc = "join" /\ Barrier
\* No seek and no write of the current pass reported an error.
PassClean == \A t \in Tids(num_threads) : ~wfail[t]
Printed(msg) == \E i \in DOMAIN out : out[i] = <<msg>>
PassDoneLines == {i \in DOMAIN out : out[i][1] = "pass done"}

\* C1: every write of a worker lands inside the worker's own chunk
\* [start_offset, start_offset + current_chunk_size), whatever the
\* interleaving of the seeks and writes on the shared stream.
C1_WriteStaysInOwnChunk ==
    [][\A t \in Tids(num_threads) :
         (wpc[t] = "write" /\ wpc'[t] # "write" /\ fpos' > fpos)
         => /\ start_offset[t] <= fpos
            /\ fpos' <= start_offset[t] + current_chunk_size[t]]_vars

\* C2: when a pass ends without a seek or write error, every offset of
\* [0, L) was written exactly once in that pass (so P times after P passes).
C2_EveryByteOncePerPass ==
    (PassComplete /\ PassClean)
    => \A o \in 1 .. file_size : wcnt[o] = 1

\* C3: at the barrier of a ZERO (ONES) pass that had no error, every byte of
\* [0, L) is 0x00 (0xFF).
C3_UniformAfterPatternPass ==
    (PassComplete /\ PassClean)
    => /\ pattern_name = "0x00" => \A o \in 1 .. file_size : file[o] = 0
       /\ pattern_name = "0xFF" => \A o \in 1 .. file_size : file[o] = 255

\* C4: once a seek or a write failed in pass k, no worker of a later pass is
\* dispatched.
C4_NoPassAfterFailure ==
    \A k \in failures : \A p \in dispatched : p <= k

\* C5: completion is reported only if no worker failed; after a failure the
\* deletion prompt is not reached and secure_delete_file is not called.
C5_CompletionIsDefinitive ==
    /\ Printed("completed") => failures = {}
    /\ failures # {} => (mpc \notin {"prompt", "delete"} /\ sdcalls = << >>)

\* C6: passes run one after another in the order 1..P: a worker that is
\* running belongs to the current pass, and main is waiting at that pass's
\* barrier (or the process died there).
C6_PassesSequential ==
    /\ \A t \in Tids(num_threads) :
         wpc[t] \notin {"idle", "done"}
         => (mpc \in {"join", "crashed"} /\ wpass[t] = pass)
    /\ \A t \in Tids(num_threads) : wpass[t] <= pass
    /\ dispatched = 1 .. Cardinality(dispatched)

C6_Witness ==
    /\ num_threads = 2
    /\ pass = 2
    /\ wpc[0] = "write"
    /\ wpc[1] = "add"

\* C7: for L > 0 and N >= 1 the chunks start at i * (L div N), have length
\* L div N (the last one L div N + L mod N), are pairwise disjoint and cover
\* exactly [0, L); L = 10, N = 3 gives 3, 3, 4 at 0, 3, 6.
C7_ChunksPartitionFile ==
    LET planned == {t \in Tids(num_threads) : wpc[t] = "loop"}
        R(t) == start_offset[t] .. (start_offset[t] + current_chunk_size[t] - 1)
        L == file_size
        N == num_threads
    IN /\ \A t \in planned :
            /\ start_offset[t] = t * (L \div N)
            /\ current_chunk_size[t] =
                 IF t = N - 1 THEN (L \div N) + (L % N) ELSE L \div N
       /\ \A t, u \in planned : t # u => R(t) \cap R(u) = {}
       /\ planned = Tids(N) => UNION {R(t) : t \in planned} = 0 .. (L - 1)
       /\ (planned = Tids(N) /\ L = 10 /\ N = 3)
          => /\ start_offset = (0 :> 0 @@ 1 :> 3 @@ 2 :> 6)
             /\ current_chunk_size = (0 :> 3 @@ 1 :> 3 @@ 2 :> 4)

C7_Witness ==
    /\ file_size = 10
    /\ num_threads = 3
    /\ \A t \in Tids(3) : wpc[t] = "loop"
    /\ current_chunk_size[2] = 4

\* The rotation as the claim states it.
ClaimedPattern(p) == <<"ZERO", "ONES", "RANDOM">>[((p - 1) % 3) + 1]
KindOf(pat, rnd) ==
    IF rnd THEN "RANDOM"
    ELSE IF pat = 0 THEN "ZERO" ELSE IF pat = 255 THEN "ONES" ELSE "none"
KindOfName(name) ==
    IF name = "0x00" THEN "ZERO"
    ELSE IF name = "0xFF" THEN "ONES"
    ELSE IF name = "rand" THEN "RANDOM" ELSE "none"

\* C8: the pattern of a pass depends on the pass index alone: (p - 1) mod 3
\* = 0, 1, 2 gives ZERO, ONES, RANDOM; every worker of a pass uses it (and
\* fills its buffer with it), passes p and p + 3 have the same pattern, and
\* four passes run ZERO, ONES, RANDOM, ZERO.
C8_PatternRotation ==
    /\ \A t \in Tids(num_threads) :
         wpc[t] \in {"loop", "write", "add"}
         => /\ KindOf(pattern[t], use_random[t]) = ClaimedPattern(wpass[t])
            /\ KindOfName(pattern_name) = ClaimedPattern(wpass[t])
            /\ (wpc[t] = "write" /\ ~use_random[t])
               => \A i \in DOMAIN bufdata[t] : bufdata[t][i] = pattern[t]
    /\ \A p \in dispatched : ShredChunkPattern(p - 1) = PatternOf(p)
    /\ \A i \in PassDoneLines :
         KindOfName(out[i][3]) = ClaimedPattern(out[i][2])
    /\ \A i, j \in PassDoneLines :
         out[j][2] = out[i][2] + 3 => out[j][3] = out[i][3]
    /\ (passes = 4 /\ Printed("completed"))
       => [i \in 1 .. 4 |-> out[i][3]] = <<"0x00", "0xFF", "rand", "0x00">>

C8_Witness ==
    /\ passes = 4
    /\ pass = 4
    /\ num_threads = 2
    /\ wpc[1] = "write"
    /\ bufdata[1] = <<0>>
    /\ out[1][3] = "0x00"

\* C9: when a pass ends with every worker successful, the progress counter
\* equals the file length, for one worker and for several.
C9_CounterEqualsLength ==
    (PassComplete /\ PassClean) => total_bytes_processed = file_size

C9_Witness ==
    /\ PassComplete
    /\ PassClean
    /\ num_threads = 2
    /\ file_size = 2
    /\ total_bytes_processed = 2

DiscardAttempted == \E i \in DOMAIN sdcalls : sdcalls[i][1] = "open"
DiscardIssued == \E i \in DOMAIN sdcalls : sdcalls[i][1] = "fallocate"

\* C10: secure_delete_file enters the discard step (opens the file for it)
\* exactly when the device is an SSD and file_size >= 4096; otherwise no
\* discard is issued and remove() is its only system call.
C10_DiscardOnlyForLargeSsdFile ==
    (mpc = "exit" /\ sdcalls # << >>)
    => /\ DiscardAttempted <=> (is_ssd_device /\ file_size >= 4096)
       /\ DiscardIssued => (is_ssd_device /\ file_size >= 4096)
       /\ ~(is_ssd_device /\ file_size >= 4096)
          => (Len(sdcalls) = 1 /\ sdcalls[1][1] = "remove")

C10_Witness ==
    /\ mpc = "exit"
    /\ is_ssd_device
    /\ file_size = 4096
    /\ DiscardIssued
    /\ sdcalls[Len(sdcalls)][1] = "remove"

RemoveCalls == {i \in DOMAIN sdcalls : sdcalls[i][1] = "remove"}

\* C11: secure_delete_file always ends with exactly one remove(), after the
\* discard step whether that step succeeded, failed or was skipped, and its
\* result (and what main prints) is the result of that remove() alone.
C11_ResultIsTheUnlink ==
    (mpc = "exit" /\ sdcalls # << >>)
    => /\ RemoveCalls = {Len(sdcalls)}
       /\ deletion_success <=> (sdcalls[Len(sdcalls)][2] = "ok")
       /\ Printed("deleted") <=> deletion_success
       /\ Printed("deletion failed") <=> ~deletion_success
       /\ exists <=> ~deletion_success

\* The discard step failed (fstat failed after the open) and the file was
\* deleted all the same.
C11_Witness ==
    /\ mpc = "exit"
    /\ is_ssd_device
    /\ file_size = 10000
    /\ Len(sdcalls) = 4
    /\ sdcalls[2] = <<"fstat", "fail">>
    /\ deletion_success
    /\ ~exists

\* utils.cpp:282-346: the ways in which the probe fails.
ProbeFailed(env) ==
    \/ ~env.stat_ok
    \/ ~env.mounts_ok
    \/ ~env.mount_found
    \/ ~env.rot_open
    \/ ~env.rot_read

\* C12: is_ssd is called exactly once per run and before fopen; whenever a
\* step of the probe fails the result is "not an SSD", the probe step goes on
\* to the confirmation and not to an exit, and secure_delete_file then makes
\* no discard attempt (remove() is its only call).
C12_ProbeOnceAndFailureIsHdd ==
    /\ [](/\ probes <= 1
          /\ (mpc \in {"args", "validate", "probe"}) => probes = 0
          /\ handle # "none" => probes = 1
          /\ (probes = 1 /\ ProbeFailed(penv)) => ~is_ssd_device
          /\ (ProbeFailed(penv) /\ sdcalls # << >>)
             => (~DiscardAttempted /\ sdcalls[1][1] = "remove"))
    /\ [][mpc = "probe"
          => (mpc' = "confirm" /\ probes' = 1 /\ exit_code' = exit_code
              /\ out' = out)]_vars

C12_Witness ==
    /\ ~penv.mounts_ok
    /\ probes = 1
    /\ ~is_ssd_device
    /\ Printed("completed")
    /\ handle = "closed"
    /\ mpc = "exit"
    /\ sdcalls = << <<"remove", "ok">> >>
    /\ file_size = 1

\* The target file is as it was when the run started.
FileUntouched ==
    /\ file \in [1 .. Len(file) -> OrigBytes]
    /\ \A i \in DOMAIN wcnt : wcnt[i] = 0
    /\ exists

\* C13: with passes < 1, num_threads < 1 or an empty file the run ends with
\* an error (exit code 1) before the file is opened, before any worker is
\* dispatched and with the file untouched; a length of 0 or less found by
\* get_file_size ends the run the same way.
C13_InvalidInputRejectedBeforeIo ==
    /\ (passes < 1 \/ num_threads < 1 \/ Len(file) = 0)
       => /\ mpc \in {"args", "validate", "exit"}
          /\ handle = "none"
          /\ dispatched = {}
          /\ \A t \in Tids(num_threads) : wpc[t] = "idle"
          /\ total_bytes_processed = 0
          /\ FileUntouched
          /\ mpc = "exit" => (exit_code = 1 /\ Printed("error"))
    /\ (file_size <= 0 /\ mpc \notin {"args", "validate", "probe", "confirm",
                                       "open", "size"})
       => /\ mpc = "exit"
          /\ dispatched = {}
          /\ FileUntouched
          /\ exit_code \in {0, 1}
          /\ handle # "open"

C13_Witness ==
    /\ passes = 0
    /\ num_threads = 2
    /\ Len(file) = 2
    /\ mpc = "exit"
    /\ exit_code = 1
    /\ Printed("error")
    /\ handle = "none"

\* C14: the step in which a worker's fseek or fwrite fails adds nothing to
\* the progress counter, takes back no byte and leaves the write loop; the
\* steps the worker takes afterwards in that pass are its fflush and the end
\* of its iteration only: no seek, no write, no addition, no change of the
\* file (wfail[t] is cleared when the worker begins the next pass).
C14_WorkerStopsOnFirstError ==
    [][\A t \in Tids(num_threads) :
         /\ (mpc = "join" /\ ~wfail[t] /\ wfail'[t])
            => /\ wpc[t] \in {"loop", "write"}
               /\ wpc'[t] = "flush"
               /\ total_bytes_processed' = total_bytes_processed
               /\ current_offset'[t] = current_offset[t]
               /\ bytes_remaining'[t] = bytes_remaining[t]
               /\ Len(file') >= Len(file)
               /\ \A i \in DOMAIN wcnt : wcnt'[i] >= wcnt[i]
         /\ (mpc = "join" /\ wfail[t] /\ wpc[t] # "begin" /\ wpc'[t] # wpc[t])
            => /\ wpc[t] \in {"flush", "free"}
               /\ wpc'[t] \in {"free", "done"}
               /\ file' = file
               /\ fpos' = fpos
               /\ wcnt' = wcnt
               /\ total_bytes_processed' = total_bytes_processed]_vars

C14_Witness ==
    /\ num_threads = 1
    /\ Len(file) = 2
    /\ pass = 1
    /\ mpc = "join"
    /\ wfail[0]
    /\ wpc[0] = "done"
    /\ wcnt = <<1, 0>>
    /\ file = <<ZERO, 90>>
    /\ total_bytes_processed = 1

\* C15: written data is unflushed only while a worker that has yet to call
\* its fflush is inside the parallel region: at the barrier of every pass,
\* between passes and from "Completed" on, nothing written is unflushed.
C15_FlushedBeforeNextPass ==
    /\ dirty => /\ mpc \in {"join", "crashed"}
                /\ \E t \in Tids(num_threads) :
                      wpc[t] \in {"loop", "write", "add", "flush"}
    /\ PassComplete => ~dirty
    /\ mpc \in {"loop", "prompt", "delete", "exit"} => ~dirty

C15_Witness ==
    /\ mpc = "loop"
    /\ passes = 2
    /\ pass = 2
    /\ num_threads = 2
    /\ failures = {}
    /\ wcnt = <<1, 1>>
    /\ file = <<ZERO, ZERO>>
    /\ handle = "open"
    /\ ~dirty

\* C16: the buffer a worker allocates for a pass is released exactly once on
\* every path: never a second delete[], one delete[] by the time the worker
\* is done, and the buffer is still allocated whenever it is written from.
C16_BufferReleasedOnce ==
    \A t \in Tids(num_threads) :
       /\ frees[t] <= 1
       /\ wpc[t] = "done" => frees[t] = 1
       /\ wpc[t] \in {"write", "add"} => buffer[t] = "alloc"

\* C17: from the moment its size is taken the file keeps its length L, under
\* every interleaving of the workers' seeks and writes.
C17_LengthNeverChanges ==
    (handle # "none" /\ file_size > 0) => Len(file) = file_size

\* C18: the progress counter changes in two ways only: main sets it to 0
\* when it starts a pass, with no worker inside the parallel region, and a
\* worker whose fwrite wrote everything adds that write's byte count (> 0)
\* to the value the counter has at that moment; every such addition takes
\* effect, so within a pass the counter never decreases.
C18_CounterResetAndAtomicAdds ==
    [][/\ total_bytes_processed' # total_bytes_processed
          => \/ /\ mpc = "loop"
                /\ mpc' = "join"
                /\ total_bytes_processed' = 0
                /\ \A t \in Tids(num_threads) : wpc[t] \in {"idle", "done"}
             \/ /\ mpc = "join"
                /\ total_bytes_processed' > total_bytes_processed
                /\ \E t \in Tids(num_threads) :
                      wpc[t] = "add" /\ wpc'[t] = "loop"
       /\ \A t \in Tids(num_threads) :
            (mpc = "join" /\ wpc[t] = "add" /\ wpc'[t] # "add")
            => /\ ~wfail[t]
               /\ bytes_to_write[t] > 0
               /\ total_bytes_processed'
                    = total_bytes_processed + bytes_to_write[t]]_vars

C18_Witness ==
    /\ mpc = "join"
    /\ pass = 2
    /\ num_threads = 2
    /\ file_size = 2
    /\ total_bytes_processed = 2
    /\ wpc = [t \in Tids(2) |-> "loop"]

\* The chunk main.cpp:133-137 gives worker t has length zero.
ZeroChunk(t) == CurrentChunkSize(t, num_threads, chunk_size, remainder) = 0

\* C19: a worker whose chunk has length zero takes no step that seeks,
\* writes, adds to the progress counter, changes the file or records a
\* failure, and it ends its iteration with one release of its buffer; when
\* L < N a pass without an error has still written every offset of [0, L)
\* once and kept the length; with N = 1 the chunk of the only worker is
\* [0, L).
C19_ZeroLengthChunkIsNoOp ==
    /\ [](/\ \A t \in Tids(num_threads) :
               (mpc = "join" /\ ZeroChunk(t))
               => /\ wpc[t] \in {"begin", "loop", "flush", "free", "done"}
                  /\ wpc[t] # "begin" => (~wfail[t] /\ frees[t] <= 1)
          /\ (mpc = "join" /\ file_size < num_threads)
             => /\ Len(file) = file_size
                /\ \A t \in Tids(num_threads) : wpc[t] # "begin" =>
                      (ZeroChunk(t) <=> t # num_threads - 1)
                /\ (PassComplete /\ PassClean)
                   => \A o \in 1 .. file_size : wcnt[o] = 1
          /\ (mpc = "join" /\ num_threads = 1 /\ wpc[0] # "begin")
             => /\ start_offset[0] = 0
                /\ current_chunk_size[0] = file_size
                /\ (PassComplete /\ PassClean)
                   => (Len(file) = file_size
                       /\ \A o \in 1 .. file_size : wcnt[o] = 1))
    /\ [][\A t \in Tids(num_threads) :
            (mpc = "join" /\ ZeroChunk(t) /\ wpc'[t] # wpc[t])
            => /\ file' = file
               /\ fpos' = fpos
               /\ wcnt' = wcnt
               /\ total_bytes_processed' = total_bytes_processed
               /\ failures' = failures
               /\ mpc' = "join"]_vars

C19_Witness ==
    /\ file_size = 1
    /\ num_threads = 2
    /\ PassComplete
    /\ PassClean
    /\ ZeroChunk(0)
    /\ frees[0] = 1
    /\ current_chunk_size[1] = 1
    /\ wcnt = <<1>>
    /\ file = <<ZERO>>
    /\ total_bytes_processed = 1

\* C20: after a run that completed with no error reported, the content of
\* the file is fixed by the pattern of the last pass alone when that pattern
\* is 0x00 or 0xFF: L bytes of it, whatever the file held before and however
\* many workers wrote it (so a second such run changes nothing).
C20_FinalContentFromPatternAlone ==
    (Printed("completed") /\ failures = {})
    => /\ PatternName(passes) = "0x00"
          => file = [i \in 1 .. file_size |-> ZERO]
       /\ PatternName(passes) = "0xFF"
          => file = [i \in 1 .. file_size |-> ONES]

\* The pass loop is over: the barrier of the last pass was passed, and the
\* stream was flushed and closed (main.cpp:197-205).
OverwriteOver ==
    /\ pass = passes + 1
    /\ Cardinality(PassDoneLines) = passes
    /\ \A t \in Tids(num_threads) : wpc[t] = "done"
    /\ handle = "closed"
    /\ ~dirty
    /\ Printed("completed")

\* C21: secure_delete_file is called at most once, and only when the pass
\* loop is over, the stream flushed and closed, and neither confirmation was
\* declined; after a declined confirmation the file still exists, and after
\* a declined first confirmation it was never opened or written.
C21_DeletionOrdering ==
    /\ Cardinality(RemoveCalls) <= 1
    /\ mpc = "delete" => (OverwriteOver /\ sdcalls = << >>)
    /\ sdcalls # << >>
       => /\ mpc = "exit"
          /\ OverwriteOver
          /\ ~Printed("kept")
          /\ ~Printed("cancelled")
    /\ ~exists => (sdcalls # << >> /\ deletion_success)
    /\ Printed("kept") => (exists /\ sdcalls = << >> /\ OverwriteOver)
    /\ Printed("cancelled")
       => /\ exists
          /\ sdcalls = << >>
          /\ handle = "none"
          /\ dispatched = {}
          /\ FileUntouched

C21_Witness ==
    /\ mpc = "exit"
    /\ passes = 2
    /\ num_threads = 2
    /\ file_size = 2
    /\ OverwriteOver
    /\ sdcalls = << <<"remove", "ok">> >>
    /\ deletion_success
    /\ ~exists

\* The writes a worker may still need: ceil(bytes_remaining / BUFFER_SIZE).
WritesLeft(t) == (bytes_remaining[t] + BUFFER_SIZE - 1) \div BUFFER_SIZE

\* C22: with every call returning and fair scheduling, each full write of a
\* worker takes one off the ceil(remaining / buffer size) writes it has
\* left, every pass that was started reaches its barrier, at most P passes
\* are started, and every run that entered the pass loop leaves it for the
\* end of the overwrite.
C22_Termination ==
    /\ [][\A t \in Tids(num_threads) :
            (mpc = "join" /\ wpc[t] = "add" /\ wpc'[t] = "loop")
            => /\ WritesLeft(t) > 0
               /\ WritesLeft(t)' = WritesLeft(t) - 1]_vars
    /\ [](dispatched \subseteq 1 .. passes)
    /\ (mpc = "join") ~> PassComplete
    /\ (mpc = "loop") ~> (mpc = "prompt")

====
